---- MODULE Spec2Model ----
(***************************************************************************)
(* GroceryConcierge (src/main.py): the fridge inventory and its persisted  *)
(* document, the meal planner with its live and mock strategies, the store *)
(* catalog search, order creation, the calendar event log and the          *)
(* plan_and_order workflow.                                                *)
(*                                                                         *)
(* Amounts of money are integers in cents.  Times are integers in minutes. *)
(* Text is kept as TLA+ strings; str.lower() is the table Lower.           *)
(***************************************************************************)
EXTENDS Integers, Sequences, FiniteSets, TLC

VARIABLES
    items,       \* FridgeInventory.items: sequence of FridgeItem records
    doc,         \* the document fridge_inventory.json
    inv_last,    \* the last inventory call: arguments, inventory before it, result
    inv_prev,    \* the add_item call a remove_item call directly follows, if any
    api_key,     \* MealPlanner.api_key
    live_calls,  \* number of openai.ChatCompletion.create calls made so far
    events,      \* CalendarManager.events
    plan_last,   \* the last planner / workflow call and its result
    clock,       \* the time of the last planner / workflow call
    store_last   \* the last search_products / create_order call and its result

inv_vars == <<items, doc, inv_last, inv_prev>>
plan_vars == <<api_key, live_calls, events, plan_last, clock>>
store_vars == <<store_last>>
vars == <<items, doc, inv_last, inv_prev, api_key, live_calls, events, plan_last, clock, store_last>>

----------------------------------------------------------------------------
(* Bounds *)

MaxQty == 2        \* largest quantity argument of add_item / remove_item
QtyCap == 3        \* add_item is not taken past this on-hand quantity
MaxDays == 3       \* longest planning horizon asked for
MaxCalls == 2      \* live generator calls counted
MaxEvents == 5     \* longest event log
MaxClock == 1800   \* latest time of a call, in minutes
MaxList == 3       \* longest list given to search_products / create_order
MaxItemQty == 2    \* largest quantity of a grocery item
MaxWindow == 1     \* widest window, in days, asked of get_upcoming_events
MaxReminders == 2  \* longest log a scheduler is called on by itself
MaxAge == 2        \* latest day, counted from the first, a query is made on
MaxSpan == 4       \* widest span, in days, asked of get_expiring_soon
MaxThreshold == 3  \* highest threshold asked of get_low_stock

----------------------------------------------------------------------------
(* Text *)

\* str.lower() on the names that occur in the model
Lower(s) ==
    CASE s = "Milk" -> "milk"
      [] s = "MILK" -> "milk"
      [] s = "Eggs" -> "eggs"
      [] s = "Chicken Breast" -> "chicken breast"
      [] s = "Broccoli" -> "broccoli"
      [] s = "Carrots" -> "carrots"
      [] s = "Bread" -> "bread"
      [] s = "BREAD" -> "bread"
      [] s = "Cheese" -> "cheese"
      [] s = "Tomatoes" -> "tomatoes"
      [] s = "Onion" -> "onion"
      [] s = "Rice" -> "rice"
      [] s = "Tofu" -> "tofu"
      [] s = "TOFU" -> "tofu"
      [] s = "Kale" -> "kale"
      [] s = "Spinach" -> "spinach"
      [] s = "SPINACH" -> "spinach"
      [] s = "Salmon" -> "salmon"
      [] s = "Pasta" -> "pasta"
      [] s = "Olive Oil" -> "olive oil"
      [] s = "Saffron" -> "saffron"
      [] OTHER -> s

----------------------------------------------------------------------------
(* FridgeInventory *)

FridgeItem(name, quantity, unit, expiry_date, category) ==
    [name |-> name, quantity |-> quantity, unit |-> unit,
     expiry_date |-> expiry_date, category |-> category]

\* _create_default_inventory: the ten sample items (dates as YYYYMMDD)
default_items ==
    << FridgeItem("Milk", 1, "gallon", 20250725, "dairy"),
       FridgeItem("Eggs", 8, "pieces", 20250730, "dairy"),
       FridgeItem("Chicken Breast", 2, "lbs", 20250722, "meat"),
       FridgeItem("Broccoli", 1, "head", 20250721, "vegetable"),
       FridgeItem("Carrots", 5, "pieces", 20250728, "vegetable"),
       FridgeItem("Bread", 1, "loaf", 20250720, "grain"),
       FridgeItem("Cheese", 8, "oz", 20250801, "dairy"),
       FridgeItem("Tomatoes", 3, "pieces", 20250723, "vegetable"),
       FridgeItem("Onion", 2, "pieces", 20250805, "vegetable"),
       FridgeItem("Rice", 2, "cups", 20260101, "grain") >>

\* The document: absent, present but not loadable (json.load or
\* FridgeItem(**item) raises), or a list of records.
DocMissing == [state |-> "missing", records |-> << >>]
DocCorrupt == [state |-> "corrupt", records |-> << >>]
DocOf(its) == [state |-> "ok", records |-> its]

\* save_inventory: json.dump of item.to_dict() for every item
save_inventory(its) == DocOf(its)

\* load_inventory: the items and the document after the call
load_inventory(d) ==
    CASE d.state = "ok" -> [items |-> d.records, doc |-> d]
      [] d.state = "missing" ->
            [items |-> default_items, doc |-> save_inventory(default_items)]
      [] OTHER -> [items |-> default_items, doc |-> d]

\* index of the first line whose name matches case-insensitively, 0 if none
FirstMatch(its, name) ==
    LET hits == {i \in 1..Len(its) : Lower(its[i].name) = Lower(name)}
    IN  IF hits = {} THEN 0 ELSE CHOOSE i \in hits : \A j \in hits : i <= j

\* list.remove(x): drop the first element equal to x
ListRemove(its, x) ==
    LET hits == {i \in 1..Len(its) : its[i] = x}
        k == CHOOSE i \in hits : \A j \in hits : i <= j
    IN  IF hits = {} THEN its
        ELSE [i \in 1..(Len(its) - 1) |-> IF i < k THEN its[i] ELSE its[i + 1]]

\* remove_item without the deletion of an emptied line
remove_item_keeps_empty(its, name, quantity) ==
    LET i == FirstMatch(its, name)
    IN  IF i = 0 THEN [items |-> its, ret |-> FALSE, saved |-> FALSE]
        ELSE IF its[i].quantity >= quantity
        THEN [items |-> [its EXCEPT ![i].quantity = @ - quantity], ret |-> TRUE, saved |-> TRUE]
        ELSE [items |-> its, ret |-> FALSE, saved |-> FALSE]

\* remove_item that takes what there is when asked for more
remove_item_takes_rest(its, name, quantity) ==
    LET i == FirstMatch(its, name)
    IN  IF i = 0 THEN [items |-> its, ret |-> FALSE, saved |-> FALSE]
        ELSE IF its[i].quantity >= quantity
        THEN LET dec == [its EXCEPT ![i].quantity = @ - quantity]
             IN  [items |-> IF dec[i].quantity = 0 THEN ListRemove(dec, dec[i]) ELSE dec,
                  ret |-> TRUE, saved |-> TRUE]
        ELSE [items |-> ListRemove(its, its[i]), ret |-> FALSE, saved |-> TRUE]

\* remove_item: the items afterwards, the return value, whether it saved
remove_item(its, name, quantity) ==
    LET i == FirstMatch(its, name)
    IN  IF i = 0 THEN [items |-> its, ret |-> FALSE, saved |-> FALSE]
        ELSE IF its[i].quantity >= quantity
        THEN LET dec == [its EXCEPT ![i].quantity = @ - quantity]
             IN  [items |-> IF dec[i].quantity = 0 THEN ListRemove(dec, dec[i]) ELSE dec,
                  ret |-> TRUE, saved |-> TRUE]
        ELSE [items |-> its, ret |-> FALSE, saved |-> FALSE]

\* add_item that sets the quantity of an existing line instead of adding to it
add_item_overwrites(its, item) ==
    LET i == FirstMatch(its, item.name)
    IN  IF i # 0 THEN [its EXCEPT ![i].quantity = item.quantity]
        ELSE Append(its, item)

\* add_item that looks for a line of exactly the same name
add_item_exact_name(its, item) ==
    LET hits == {i \in 1..Len(its) : its[i].name = item.name}
    IN  IF hits # {} THEN [its EXCEPT ![CHOOSE i \in hits : \A j \in hits : i <= j].quantity = @ + item.quantity]
        ELSE Append(its, item)

\* add_item: the items afterwards (it always saves)
add_item(its, item) ==
    LET i == FirstMatch(its, item.name)
    IN  IF i # 0 THEN [its EXCEPT ![i].quantity = @ + item.quantity]
        ELSE Append(its, item)

\* Arguments the calls are tried with
AddLines ==
    { FridgeItem(n, q, "pack", 20250801, "misc") : n \in {"milk", "Tofu", "TOFU"}, q \in 0..MaxQty }
RemoveNames == {"milk", "MILK", "Tofu", "Kale"}

\* Documents a previous run of the program can have left behind
StartDocs ==
    { DocMissing, DocCorrupt,
      DocOf(<< FridgeItem("Tofu", 2, "pack", 20250801, "misc"),
               FridgeItem("Bread", 1, "loaf", 20250720, "grain") >>) }

NoCall == [op |-> "none", name |-> "", quantity |-> 0, pre |-> << >>, predoc |-> DocMissing, ret |-> FALSE]

\* FridgeInventory.__init__ up to the call of load_inventory
InvInit ==
    /\ items = << >>
    /\ doc \in StartDocs
    /\ inv_last = NoCall
    /\ inv_prev = NoCall

Load ==
    /\ inv_last.op = "none"
    /\ LET r == load_inventory(doc)
       IN  /\ items' = r.items
           /\ doc' = r.doc
    /\ inv_last' = [op |-> "load", name |-> "", quantity |-> 0, pre |-> items, predoc |-> doc, ret |-> TRUE]
    /\ inv_prev' = NoCall
    /\ UNCHANGED <<plan_vars, store_vars>>

Add ==
    /\ inv_last.op # "none"
    /\ \E line \in AddLines :
         /\ LET i == FirstMatch(items, line.name)
            IN  i # 0 => items[i].quantity + line.quantity <= QtyCap
         /\ items' = add_item(items, line)
         /\ doc' = save_inventory(items')
         /\ inv_last' = [op |-> "add", name |-> line.name, quantity |-> line.quantity,
                         pre |-> items, predoc |-> doc, ret |-> TRUE]
         /\ inv_prev' = NoCall
    /\ UNCHANGED <<plan_vars, store_vars>>

Remove ==
    /\ inv_last.op # "none"
    /\ \E name \in RemoveNames, quantity \in 0..MaxQty :
         LET r == remove_item(items, name, quantity)
         IN  /\ items' = r.items
             /\ doc' = IF r.saved THEN save_inventory(r.items) ELSE doc
             /\ inv_last' = [op |-> "remove", name |-> name, quantity |-> quantity,
                             pre |-> items, predoc |-> doc, ret |-> r.ret]
             /\ inv_prev' = IF inv_last.op = "add" THEN inv_last ELSE NoCall
    /\ UNCHANGED <<plan_vars, store_vars>>

InvNext == Load \/ Add \/ Remove

----------------------------------------------------------------------------
(* Python values *)

\* None where a string is expected, and None where a dict or a text is
PyNone == "<None>"
None == [none |-> TRUE]

\* truth value of None and of a string
Truthy(v) == v # PyNone /\ v # ""

\* a or b
PyOr(a, b) == IF Truthy(a) THEN a ELSE b

----------------------------------------------------------------------------
(* MealPlanner *)

\* GroceryItem(...).__dict__; prices in cents
GroceryItem(name, quantity, unit, category, estimated_price) ==
    [name |-> name, quantity |-> quantity, unit |-> unit, category |-> category,
     estimated_price |-> estimated_price, store_item_id |-> PyNone]

GroceryItemFields == {"name", "quantity", "unit", "category", "estimated_price", "store_item_id"}
GroceryItemRequired == {"name", "quantity", "unit", "category"}

\* A value of a plan's "grocery_list" entry: its JSON type, and for a list
\* its elements.  An element is [t, keys, item]: its JSON type, the keys of
\* the object and the GroceryItem those keys build (defaults filled in).
GL(t, elems) == [t |-> t, elems |-> elems]
Elem(keys, item) == [t |-> "dict", keys |-> keys, item |-> item]

\* A value of a plan's "meal_plan" entry: its JSON type, and for an object
\* its (key, meals) pairs in order.
MP(t, days) == [t |-> t, days |-> days]
MockMeals ==
    [breakfast |-> "Scrambled eggs with cheese",
     lunch |-> "Chicken and vegetable stir-fry",
     dinner |-> "Grilled salmon with rice and broccoli"]

\* f"day_{day}"
DayKey(day) == "day_" \o ToString(day)

\* MockDays stopping a day early, as range(1, days) would
RECURSIVE MockDays_short(_)
MockDays_short(days) ==
    IF days <= 1 THEN << >>
    ELSE Append(MockDays_short(days - 1), [key |-> DayKey(days - 1), meals |-> MockMeals])

\* meal_plan entries of the mock plan for range(1, days + 1)
RECURSIVE MockDays(_)
MockDays(days) ==
    IF days <= 0 THEN << >>
    ELSE Append(MockDays(days - 1), [key |-> DayKey(days), meals |-> MockMeals])

MockNotes ==
    << "This is a mock meal plan. Connect OpenAI API for personalized planning.",
       "Use ingredients expiring soon first.",
       "Consider batch cooking for efficiency." >>

\* A value of a plan's "notes" entry
Notes(t, elems) == [t |-> t, elems |-> elems]

\* A plan: a dict with its three entries
Plan(mp, gl, notes) == [t |-> "dict", meal_plan |-> mp, grocery_list |-> gl, notes |-> notes]
\* A parsed JSON value that is not an object
NonDict(t) ==
    [t |-> t, meal_plan |-> MP("absent", << >>), grocery_list |-> GL("absent", << >>),
     notes |-> Notes("absent", << >>)]

\* a fallback that leaves out of the grocery list what the fridge holds
_generate_mock_meal_plan_skips_held(inventory, days) ==
    Plan(MP("dict", MockDays(days)),
         GL("list",
            SelectSeq(<< Elem(GroceryItemFields, GroceryItem("Spinach", 1, "bag", "vegetable", 299)),
                         Elem(GroceryItemFields, GroceryItem("Salmon", 1, "lb", "seafood", 1299)),
                         Elem(GroceryItemFields, GroceryItem("Pasta", 1, "box", "grain", 149)),
                         Elem(GroceryItemFields, GroceryItem("Olive Oil", 1, "bottle", "condiment", 499)) >>,
                      LAMBDA e : \A i \in 1..Len(inventory) : inventory[i].name # e.item.name)),
         Notes("list", MockNotes))

_generate_mock_meal_plan(inventory, days) ==
    Plan(MP("dict", MockDays(days)),
         GL("list",
            << Elem(GroceryItemFields, GroceryItem("Spinach", 1, "bag", "vegetable", 299)),
               Elem(GroceryItemFields, GroceryItem("Salmon", 1, "lb", "seafood", 1299)),
               Elem(GroceryItemFields, GroceryItem("Pasta", 1, "box", "grain", 149)),
               Elem(GroceryItemFields, GroceryItem("Olive Oil", 1, "bottle", "condiment", 499)) >>),
         Notes("list", MockNotes))

\* What the live generator can answer: the call raises, or it returns text.
TofuItem == GroceryItem("Tofu", 1, "block", "protein", 0)
SpinachItem == GroceryItem("spinach", 2, "bag", "vegetable", 0)
LiveMeals == [lunch |-> "Leftovers", dinner |-> "Tofu stir-fry"]
OneDay == << [key |-> "day_1", meals |-> LiveMeals] >>
WeekDays == << [key |-> "monday", meals |-> LiveMeals] >>

LiveTexts ==
    { "Sorry, I cannot help with that.",
      "[1, 2]",
      "{\"plan\": \"eat well\"}",
      "{\"meal_plan\": {\"day_1\": {}}, \"grocery_list\": null}",
      "{\"meal_plan\": {\"day_1\": {}}, \"grocery_list\": \"spinach\"}",
      "{\"meal_plan\": {\"day_1\": {}}, \"grocery_list\": [{name, quantity, unit, category, reason}]}",
      "{\"meal_plan\": {\"day_1\": {}}, \"grocery_list\": [{name, quantity}]}",
      "{\"meal_plan\": {\"monday\": {}}, \"grocery_list\": [{name, quantity, unit, category}]}",
      "{\"meal_plan\": {\"day_1\": {}}, \"grocery_list\": [{name, quantity, unit, category}]}" }

\* json.loads: whether the text parses, and the value
JsonLoads(text) ==
    CASE text = "[1, 2]" -> [ok |-> TRUE, value |-> NonDict("list")]
      [] text = "{\"plan\": \"eat well\"}" ->
            [ok |-> TRUE, value |-> Plan(MP("absent", << >>), GL("absent", << >>), Notes("absent", << >>))]
      [] text = "{\"meal_plan\": {\"day_1\": {}}, \"grocery_list\": null}" ->
            [ok |-> TRUE, value |-> Plan(MP("dict", OneDay), GL("null", << >>), Notes("absent", << >>))]
      [] text = "{\"meal_plan\": {\"day_1\": {}}, \"grocery_list\": \"spinach\"}" ->
            [ok |-> TRUE, value |-> Plan(MP("dict", OneDay),
                 GL("str", << [t |-> "str", keys |-> {}, item |-> TofuItem] >>), Notes("absent", << >>))]
      [] text = "{\"meal_plan\": {\"day_1\": {}}, \"grocery_list\": [{name, quantity, unit, category, reason}]}" ->
            [ok |-> TRUE, value |-> Plan(MP("dict", OneDay),
                 GL("list", << Elem(GroceryItemRequired \cup {"reason"}, SpinachItem) >>), Notes("list", << >>))]
      [] text = "{\"meal_plan\": {\"day_1\": {}}, \"grocery_list\": [{name, quantity}]}" ->
            [ok |-> TRUE, value |-> Plan(MP("dict", OneDay),
                 GL("list", << Elem({"name", "quantity"}, SpinachItem) >>), Notes("list", << >>))]
      [] text = "{\"meal_plan\": {\"monday\": {}}, \"grocery_list\": [{name, quantity, unit, category}]}" ->
            [ok |-> TRUE, value |-> Plan(MP("dict", WeekDays),
                 GL("list", << Elem(GroceryItemRequired, SpinachItem) >>), Notes("list", << >>))]
      [] text = "{\"meal_plan\": {\"day_1\": {}}, \"grocery_list\": [{name, quantity, unit, category}]}" ->
            [ok |-> TRUE, value |-> Plan(MP("dict", OneDay),
                 GL("list", << Elem(GroceryItemRequired, SpinachItem), Elem(GroceryItemRequired, TofuItem) >>),
                 Notes("list", << "Press the tofu first." >>))]
      [] OTHER -> [ok |-> FALSE, value |-> NonDict("none")]

LiveOutcomes ==
    {[raises |-> TRUE, text |-> ""]} \cup {[raises |-> FALSE, text |-> t] : t \in LiveTexts}

\* len(meal_plan.get('grocery_list', [])) raises: meal_plan is no dict, or
\* the entry has no length
LenRaises(value) ==
    \/ value.t # "dict"
    \/ value.grocery_list.t \in {"null", "num"}

\* generate_meal_plan without the test of the key
generate_meal_plan_ignores_key(key, inventory, days, live) ==
    IF live.raises \/ ~JsonLoads(live.text).ok \/ LenRaises(JsonLoads(live.text).value)
    THEN [plan |-> _generate_mock_meal_plan(inventory, days), called |-> TRUE, mock |-> TRUE]
    ELSE [plan |-> JsonLoads(live.text).value, called |-> TRUE, mock |-> FALSE]

\* generate_meal_plan: the plan returned and whether the live generator was
\* called; live is what the generator answers if it is called
generate_meal_plan(key, inventory, days, live) ==
    IF ~Truthy(key)
    THEN [plan |-> _generate_mock_meal_plan(inventory, days), called |-> FALSE, mock |-> TRUE]
    ELSE IF live.raises \/ ~JsonLoads(live.text).ok \/ LenRaises(JsonLoads(live.text).value)
    THEN [plan |-> _generate_mock_meal_plan(inventory, days), called |-> TRUE, mock |-> TRUE]
    ELSE [plan |-> JsonLoads(live.text).value, called |-> TRUE, mock |-> FALSE]

----------------------------------------------------------------------------
(* GroceryManager *)

CatalogEntry(price, unit, available, store_id) ==
    [price |-> price, unit |-> unit, available |-> available, store_id |-> store_id]

\* store_catalog, keyed by lower-case name; prices in cents
store_catalog ==
    [k \in {"milk", "eggs", "chicken breast", "broccoli", "spinach", "salmon", "pasta", "olive oil"} |->
        CASE k = "milk" -> CatalogEntry(399, "gallon", TRUE, "MILK001")
          [] k = "eggs" -> CatalogEntry(249, "dozen", TRUE, "EGG001")
          [] k = "chicken breast" -> CatalogEntry(899, "lb", TRUE, "CHKN001")
          [] k = "broccoli" -> CatalogEntry(199, "head", TRUE, "BROC001")
          [] k = "spinach" -> CatalogEntry(299, "bag", TRUE, "SPIN001")
          [] k = "salmon" -> CatalogEntry(1299, "lb", TRUE, "SALM001")
          [] k = "pasta" -> CatalogEntry(149, "box", TRUE, "PAST001")
          [] OTHER -> CatalogEntry(499, "bottle", TRUE, "OIL001")]

NotFound == "Product not found in store catalog"

\* FoundProduct looking the name up as written
FoundProduct_exact_name(item) ==
    IF item.name \in DOMAIN store_catalog
    THEN [requested_item |-> item,
          store_item |-> [name |-> item.name,
                          store_id |-> store_catalog[item.name].store_id,
                          price |-> store_catalog[item.name].price,
                          unit |-> store_catalog[item.name].unit,
                          available |-> store_catalog[item.name].available,
                          total_cost |-> store_catalog[item.name].price * item.quantity]]
    ELSE [requested_item |-> item, store_item |-> None, error |-> NotFound]

\* the entry search_products appends for one item
FoundProduct(item) ==
    LET item_key == Lower(item.name)
    IN  IF item_key \in DOMAIN store_catalog
        THEN [requested_item |-> item,
              store_item |-> [name |-> item.name,
                              store_id |-> store_catalog[item_key].store_id,
                              price |-> store_catalog[item_key].price,
                              unit |-> store_catalog[item_key].unit,
                              available |-> store_catalog[item_key].available,
                              total_cost |-> store_catalog[item_key].price * item.quantity]]
        ELSE [requested_item |-> item, store_item |-> None, error |-> NotFound]

\* search_products leaving out the items it does not find
RECURSIVE search_products_found_only(_)
search_products_found_only(grocery_list) ==
    IF grocery_list = << >> THEN << >>
    ELSE (IF Lower(Head(grocery_list).name) \in DOMAIN store_catalog
          THEN << FoundProduct(Head(grocery_list)) >> ELSE << >>)
         \o search_products_found_only(Tail(grocery_list))

\* search_products: one entry per item, in order
RECURSIVE search_products(_)
search_products(grocery_list) ==
    IF grocery_list = << >> THEN << >>
    ELSE << FoundProduct(Head(grocery_list)) >> \o search_products(Tail(grocery_list))

\* p.get('store_item') is truthy
HasStoreItem(p) == p.store_item # None

RECURSIVE Filter(_, _)
Filter(seq, keep) ==
    IF seq = << >> THEN << >>
    ELSE (IF keep[Head(seq)] THEN << Head(seq) >> ELSE << >>) \o Filter(Tail(seq), keep)

RECURSIVE SumCost(_)
SumCost(products) ==
    IF products = << >> THEN 0
    ELSE Head(products).store_item.total_cost + SumCost(Tail(products))

\* round(x, 2) of an amount of n / d cents: the nearest cent; where n / d is
\* halfway between two cents the binary value of the float decides, so
\* either neighbour
Round2(n, d) ==
    IF (2 * n) % (2 * d) = d THEN {n \div d, (n \div d) + 1}
    ELSE {(2 * n + d) \div (2 * d)}

DeliveryFee == 599
TipPercent == 15
DefaultLead == 120
MinutesPerDay == 1440

\* strftime("%Y-%m-%d %H:%M") and isoformat(): the date and the time of day
\* the text spells
Text(t) == [date |-> t \div MinutesPerDay, time |-> t % MinutesPerDay]
\* datetime.fromisoformat: the date and time of day a text spells
FromIso(text) == text.date * MinutesPerDay + text.time

\* A text that ends in an offset has a field tz ("Z" or "+00:00") and parses
\* to an offset-aware datetime; the others parse to naive ones.
Aware(text) == "tz" \in DOMAIN text

\* text.replace('Z', '+00:00')
ReplaceZ(text) ==
    IF Aware(text) THEN [text EXCEPT !.tz = IF @ = "Z" THEN "+00:00" ELSE @] ELSE text

\* isoformat() of the datetime t, offset-aware or naive
IsoFormat(t, aware) ==
    IF aware THEN [date |-> t \div MinutesPerDay, time |-> t % MinutesPerDay, tz |-> "+00:00"]
    ELSE Text(t)

OrderError == [error |-> "No available products to order"]

\* create_order that keeps every matched line, available or not
create_order_any_match(products, delivery_time, now) ==
    LET available_products ==
            Filter(products, [p \in {products[i] : i \in 1..Len(products)} |->
                                 HasStoreItem(p)])
        total_cost == SumCost(available_products)
    IN  IF available_products = << >> THEN {OrderError}
        ELSE { [order_id |-> Text(now),
                status |-> "confirmed",
                items |-> available_products,
                subtotal |-> total_cost,
                delivery_fee |-> DeliveryFee,
                tip |-> tip,
                total |-> total,
                estimated_delivery |-> IF delivery_time # None THEN delivery_time
                                       ELSE Text(now + DefaultLead),
                store |-> "Mock Grocery Store",
                created_at |-> Text(now)] :
               tip \in Round2(total_cost * TipPercent, 100),
               total \in Round2(total_cost * 100 + DeliveryFee * 100 + total_cost * TipPercent, 100) }

\* create_order that cuts the tip down to whole cents instead of rounding it
create_order_tip_floor(products, delivery_time, now) ==
    LET available_products ==
            Filter(products, [p \in {products[i] : i \in 1..Len(products)} |->
                                 HasStoreItem(p) /\ p.store_item.available])
        total_cost == SumCost(available_products)
    IN  IF available_products = << >> THEN {OrderError}
        ELSE { [order_id |-> Text(now),
                status |-> "confirmed",
                items |-> available_products,
                subtotal |-> total_cost,
                delivery_fee |-> DeliveryFee,
                tip |-> tip,
                total |-> total,
                estimated_delivery |-> IF delivery_time # None THEN delivery_time
                                       ELSE Text(now + DefaultLead),
                store |-> "Mock Grocery Store",
                created_at |-> Text(now)] :
               tip \in {(total_cost * TipPercent) \div 100},
               total \in Round2(total_cost * 100 + DeliveryFee * 100 + total_cost * TipPercent, 100) }

\* create_order: the results it can return (one, except for the rounding
\* of a tip of exactly half a cent); delivery_time is a text or None
create_order(products, delivery_time, now) ==
    LET available_products ==
            Filter(products, [p \in {products[i] : i \in 1..Len(products)} |->
                                 HasStoreItem(p) /\ p.store_item.available])
        total_cost == SumCost(available_products)
    IN  IF available_products = << >> THEN {OrderError}
        ELSE { [order_id |-> Text(now),
                status |-> "confirmed",
                items |-> available_products,
                subtotal |-> total_cost,
                delivery_fee |-> DeliveryFee,
                tip |-> tip,
                total |-> total,
                estimated_delivery |-> IF delivery_time # None THEN delivery_time
                                       ELSE Text(now + DefaultLead),
                store |-> "Mock Grocery Store",
                created_at |-> Text(now)] :
               tip \in Round2(total_cost * TipPercent, 100),
               total \in Round2(total_cost * 100 + DeliveryFee * 100 + total_cost * TipPercent, 100) }

----------------------------------------------------------------------------
(* CalendarManager *)

ReminderLead == 30
PrepHour == 18
PrepDuration == 60

\* the delivery event with the reminder at the delivery time itself
delivery_event_no_lead(order) ==
    LET delivery_time == FromIso(ReplaceZ(order.estimated_delivery))
        aware == Aware(ReplaceZ(order.estimated_delivery))
    IN  [event_id |-> << "DELIVERY", order.order_id >>,
         title |-> << "Grocery Delivery Arriving - Order", order.order_id >>,
         description |-> [store |-> order.store, total |-> order.total, items |-> Len(order.items)],
         start_time |-> IsoFormat(delivery_time, aware),
         reminder_time |-> IsoFormat(delivery_time, aware),
         type |-> "delivery_reminder",
         status |-> "scheduled"]

\* schedule_delivery_reminder: the event it appends and returns
delivery_event(order) ==
    LET delivery_time == FromIso(ReplaceZ(order.estimated_delivery))
        reminder_time == delivery_time - ReminderLead
        aware == Aware(ReplaceZ(order.estimated_delivery))
    IN  [event_id |-> << "DELIVERY", order.order_id >>,
         title |-> << "Grocery Delivery Arriving - Order", order.order_id >>,
         description |-> [store |-> order.store, total |-> order.total, items |-> Len(order.items)],
         start_time |-> IsoFormat(delivery_time, aware),
         reminder_time |-> IsoFormat(reminder_time, aware),
         type |-> "delivery_reminder",
         status |-> "scheduled"]

\* day_key.split('_'): the parts of the keys that occur in the model
Split(day_key) ==
    IF \E n \in 0..9 : day_key = "day_" \o ToString(n)
    THEN << "day", ToString(CHOOSE n \in 0..9 : day_key = "day_" \o ToString(n)) >>
    ELSE << day_key >>

\* int(text): whether it parses, and the number
ParseInt(text) ==
    IF \E n \in 0..9 : text = ToString(n)
    THEN [ok |-> TRUE, value |-> CHOOSE n \in 0..9 : text = ToString(n)]
    ELSE [ok |-> FALSE, value |-> 0]

\* meals.get(k, 'TBD')
MealOr(meals, k) == IF k \in DOMAIN meals THEN meals[k] ELSE "TBD"

\* the event schedule_meal_prep_reminders builds for one entry of the plan
meal_prep_event(day_key, meals, base_date) ==
    LET day_num == ParseInt(Split(day_key)[2]).value - 1
        event_date == base_date + day_num * MinutesPerDay
    IN  [event_id |-> << "MEAL_PREP", day_key >>,
         title |-> << "Meal Prep - Day", day_num + 1 >>,
         description |-> [dinner |-> MealOr(meals, "dinner"), breakfast |-> MealOr(meals, "breakfast")],
         start_time |-> Text(event_date),
         duration_minutes |-> PrepDuration,
         type |-> "meal_prep",
         status |-> "scheduled"]

\* int(day_key.split('_')[1]) raises
DayKeyRaises(day_key) ==
    Len(Split(day_key)) < 2 \/ ~ParseInt(Split(day_key)[2]).ok

\* the loop of schedule_meal_prep_reminders over the remaining entries: the
\* log, the events built so far, and whether an entry raised
RECURSIVE MealPrepLoop(_, _, _, _)
MealPrepLoop(log, built, days, base_date) ==
    IF days = << >> THEN [events |-> log, returned |-> built, raised |-> FALSE]
    ELSE IF DayKeyRaises(Head(days).key) THEN [events |-> log, returned |-> built, raised |-> TRUE]
    ELSE LET event == meal_prep_event(Head(days).key, Head(days).meals, base_date)
         IN  MealPrepLoop(Append(log, event), Append(built, event), Tail(days), base_date)

\* schedule_meal_prep_reminders returning self.events instead of its own list
schedule_meal_prep_reminders_returns_log(log, meal_plan, now) ==
    LET base_date == (now \div MinutesPerDay) * MinutesPerDay + PrepHour * 60
        r == MealPrepLoop(log, << >>, meal_plan.meal_plan.days, base_date)
    IN  IF meal_plan.meal_plan.t = "absent" THEN [events |-> log, returned |-> log, raised |-> FALSE]
        ELSE IF meal_plan.meal_plan.t # "dict" THEN [events |-> log, returned |-> << >>, raised |-> TRUE]
        ELSE [r EXCEPT !.returned = r.events]

\* schedule_meal_prep_reminders: the log afterwards, the list returned,
\* and whether it raised
schedule_meal_prep_reminders(log, meal_plan, now) ==
    LET base_date == (now \div MinutesPerDay) * MinutesPerDay + PrepHour * 60
    IN  IF meal_plan.meal_plan.t = "absent" THEN [events |-> log, returned |-> << >>, raised |-> FALSE]
        ELSE IF meal_plan.meal_plan.t # "dict" THEN [events |-> log, returned |-> << >>, raised |-> TRUE]
        ELSE MealPrepLoop(log, << >>, meal_plan.meal_plan.days, base_date)

\* schedule_delivery_reminder: the log afterwards, the event returned, and
\* whether it raised (an error result has no estimated_delivery)
schedule_delivery_reminder(log, order) ==
    IF "estimated_delivery" \notin DOMAIN order
    THEN [events |-> log, returned |-> None, raised |-> TRUE]
    ELSE [events |-> Append(log, delivery_event(order)),
          returned |-> delivery_event(order), raised |-> FALSE]

\* a < b for two start_time texts of naive datetimes
TextLess(a, b) == a.date < b.date \/ (a.date = b.date /\ a.time < b.time)

\* sorted(.., key=start_time) adds e to a sorted list: behind every element
\* whose key is not greater
SortedInsert(sorted, e) ==
    LET k == Cardinality({i \in 1..Len(sorted) : ~TextLess(e.start_time, sorted[i].start_time)})
    IN  SubSeq(sorted, 1, k) \o << e >> \o SubSeq(sorted, k + 1, Len(sorted))

RECURSIVE SortedByStart(_)
SortedByStart(seq) ==
    IF seq = << >> THEN << >>
    ELSE SortedInsert(SortedByStart(SubSeq(seq, 1, Len(seq) - 1)), seq[Len(seq)])

\* the events get_upcoming_events keeps: start_time <= cutoff_date
RECURSIVE UpTo(_, _)
UpTo(log, cutoff_date) ==
    IF log = << >> THEN << >>
    ELSE (IF FromIso(Head(log).start_time) <= cutoff_date THEN << Head(log) >> ELSE << >>)
         \o UpTo(Tail(log), cutoff_date)

\* get_upcoming_events sorting self.events in place, as self.events.sort() would
get_upcoming_events_sorts_log(log, days, now) ==
    LET cutoff_date == now + days * MinutesPerDay
    IN  IF \E i \in 1..Len(log) : Aware(log[i].start_time)
        THEN [events |-> log, returned |-> << >>, raised |-> TRUE]
        ELSE [events |-> SortedByStart(log),
              returned |-> UpTo(SortedByStart(log), cutoff_date), raised |-> FALSE]

\* get_upcoming_events: the log afterwards, the list returned, and whether it
\* raised (comparing an offset-aware start_time with the naive cutoff does)
get_upcoming_events(log, days, now) ==
    LET cutoff_date == now + days * MinutesPerDay
    IN  IF \E i \in 1..Len(log) : Aware(log[i].start_time)
        THEN [events |-> log, returned |-> << >>, raised |-> TRUE]
        ELSE [events |-> log, returned |-> SortedByStart(UpTo(log, cutoff_date)), raised |-> FALSE]

----------------------------------------------------------------------------
(* Inventory queries *)

\* strftime("%Y-%m-%d") of a time: day 0 of the clock is 2025-07-17
DateOf(t) ==
    LET d == 17 + (t \div MinutesPerDay)
    IN  IF d <= 31 THEN 20250700 + d ELSE 20250800 + (d - 31)

\* get_expiring_soon: the lines with expiry_date <= the cutoff date
RECURSIVE ExpiringBy(_, _)
ExpiringBy(its, cutoff_date) ==
    IF its = << >> THEN << >>
    ELSE (IF Head(its).expiry_date <= cutoff_date THEN << Head(its) >> ELSE << >>)
         \o ExpiringBy(Tail(its), cutoff_date)

\* get_expiring_soon keeping only the lines that expire on the cutoff date
get_expiring_soon_on_day(its, days, now) ==
    SelectSeq(its, LAMBDA item : item.expiry_date = DateOf(now + days * MinutesPerDay))

get_expiring_soon(its, days, now) == ExpiringBy(its, DateOf(now + days * MinutesPerDay))

\* get_low_stock: the lines with quantity <= threshold
RECURSIVE get_low_stock(_, _)
get_low_stock(its, threshold) ==
    IF its = << >> THEN << >>
    ELSE (IF Head(its).quantity <= threshold THEN << Head(its) >> ELSE << >>)
         \o get_low_stock(Tail(its), threshold)

\* list(get_inventory_summary().keys()): the categories in order of first use
RECURSIVE Categories(_)
Categories(its) ==
    IF its = << >> THEN << >>
    ELSE LET before == Categories(SubSeq(its, 1, Len(its) - 1))
             c == its[Len(its)].category
         IN  IF \E i \in 1..Len(before) : before[i] = c THEN before ELSE Append(before, c)

ExpiryDays == 3
StockThreshold == 2
StatusExpiryDays == 3
StatusThreshold == 2
StatusWindow == 7

\* daily_check counting as low stock only what is below the threshold
daily_check_below(its, now) ==
    LET expiring_items == get_expiring_soon(its, ExpiryDays, now)
        low_stock_items == get_low_stock(its, StockThreshold - 1)
    IN  [date |-> DateOf(now),
         expiring_soon |-> expiring_items,
         low_stock |-> low_stock_items,
         total_items |-> Len(its),
         recommendations |->
             (IF expiring_items # << >>
              THEN << [note |-> "Use expiring items in today's meals", count |-> Len(expiring_items)] >>
              ELSE << >>)
             \o (IF low_stock_items # << >>
                 THEN << [note |-> "Consider restocking low-stock items", count |-> Len(low_stock_items)] >>
                 ELSE << >>)
             \o (IF expiring_items = << >> /\ low_stock_items = << >>
                 THEN << [note |-> "Your fridge is well-stocked and organized!", count |-> 0] >>
                 ELSE << >>)]

\* daily_check: the insights returned
daily_check(its, now) ==
    LET expiring_items == get_expiring_soon(its, ExpiryDays, now)
        low_stock_items == get_low_stock(its, StockThreshold)
    IN  [date |-> DateOf(now),
         expiring_soon |-> expiring_items,
         low_stock |-> low_stock_items,
         total_items |-> Len(its),
         recommendations |->
             (IF expiring_items # << >>
              THEN << [note |-> "Use expiring items in today's meals", count |-> Len(expiring_items)] >>
              ELSE << >>)
             \o (IF low_stock_items # << >>
                 THEN << [note |-> "Consider restocking low-stock items", count |-> Len(low_stock_items)] >>
                 ELSE << >>)
             \o (IF expiring_items = << >> /\ low_stock_items = << >>
                 THEN << [note |-> "Your fridge is well-stocked and organized!", count |-> 0] >>
                 ELSE << >>)]

\* get_system_status: the status returned, and whether it raised
get_system_status(its, log, key, now) ==
    LET up == get_upcoming_events(log, StatusWindow, now)
    IN  [raised |-> up.raised,
         status |->
            IF up.raised THEN None
            ELSE [fridge_status |->
                      [total_items |-> Len(its),
                       categories |-> Categories(its),
                       expiring_soon |-> Len(get_expiring_soon(its, StatusExpiryDays, now)),
                       low_stock |-> Len(get_low_stock(its, StatusThreshold))],
                  upcoming_events |-> Len(up.returned),
                  system_time |-> Text(now),
                  components |->
                      [fridge |-> "operational",
                       meal_planner |-> IF Truthy(key) THEN "operational" ELSE "mock_mode",
                       grocery_manager |-> "operational",
                       calendar |-> "operational"]]]

----------------------------------------------------------------------------
(* GroceryConcierge.plan_and_order *)

\* GroceryItem(**item) raises for an element of the grocery list
ItemRaises(e) ==
    \/ e.t # "dict"
    \/ ~(e.keys \subseteq GroceryItemFields)
    \/ ~(GroceryItemRequired \subseteq e.keys)

\* the elements meal_plan.get('grocery_list', []) iterates over
GroceryElems(meal_plan) ==
    IF meal_plan.grocery_list.t = "absent" THEN << >> ELSE meal_plan.grocery_list.elems

\* (datetime.now() + timedelta(days=1)).strftime("%Y-%m-%d 16:00")
PreferredDelivery(now) == [date |-> (now + MinutesPerDay) \div MinutesPerDay, time |-> 16 * 60]

\* plan_and_order that orders whether or not auto_order is set
plan_and_order_always_orders(key, inventory, log, days, auto_order, live, now) ==
    LET g == generate_meal_plan(key, inventory, days, live)
        meal_plan == g.plan
        elems == GroceryElems(meal_plan)
        grocery_items == [i \in 1..Len(elems) |-> elems[i].item]
        products == search_products(grocery_items)
        available_products ==
            Filter(products, [p \in {products[i] : i \in 1..Len(products)} |-> HasStoreItem(p)])
        cost == IF available_products # << >> THEN SumCost(available_products) ELSE 0
        Result(order, calendar_events) ==
            [meal_plan |-> meal_plan, grocery_search_results |-> products,
             total_estimated_cost |-> cost, order |-> order, calendar_events |-> calendar_events]
        Raised(evs) == [events |-> evs, raised |-> TRUE, result |-> None, plan |-> meal_plan,
                        called |-> g.called, mock |-> g.mock, ordered |-> FALSE, items |-> inventory]
        Returned(evs, res, ordered) == [events |-> evs, raised |-> FALSE, result |-> res, plan |-> meal_plan,
                                        called |-> g.called, mock |-> g.mock, ordered |-> ordered,
                                        items |-> inventory]
    IN  IF \E i \in 1..Len(elems) : ItemRaises(elems[i]) THEN {Raised(log)}
        ELSE IF ~(available_products # << >>)
        THEN {Returned(log, Result(None, << >>), FALSE)}
        ELSE { IF "error" \in DOMAIN order THEN Returned(log, Result(order, << >>), TRUE)
               ELSE LET delivery == delivery_event(order)
                        m == schedule_meal_prep_reminders(Append(log, delivery), meal_plan, now)
                    IN  IF m.raised THEN [Raised(m.events) EXCEPT !.ordered = TRUE]
                        ELSE Returned(m.events, Result(order, << delivery >> \o m.returned), TRUE) :
               order \in create_order(available_products, PreferredDelivery(now), now) }

\* plan_and_order that puts what it ordered into the fridge
plan_and_order_restocks(key, inventory, log, days, auto_order, live, now) ==
    LET g == generate_meal_plan(key, inventory, days, live)
        meal_plan == g.plan
        elems == GroceryElems(meal_plan)
        grocery_items == [i \in 1..Len(elems) |-> elems[i].item]
        products == search_products(grocery_items)
        available_products ==
            Filter(products, [p \in {products[i] : i \in 1..Len(products)} |-> HasStoreItem(p)])
        cost == IF available_products # << >> THEN SumCost(available_products) ELSE 0
        Result(order, calendar_events) ==
            [meal_plan |-> meal_plan, grocery_search_results |-> products,
             total_estimated_cost |-> cost, order |-> order, calendar_events |-> calendar_events]
        Raised(evs) == [events |-> evs, raised |-> TRUE, result |-> None, plan |-> meal_plan,
                        called |-> g.called, mock |-> g.mock, ordered |-> FALSE, items |-> inventory]
        Returned(evs, res, ordered) == [events |-> evs, raised |-> FALSE, result |-> res, plan |-> meal_plan,
                                        called |-> g.called, mock |-> g.mock, ordered |-> ordered,
                                        items |-> inventory]
    IN  IF \E i \in 1..Len(elems) : ItemRaises(elems[i]) THEN {Raised(log)}
        ELSE IF ~(auto_order /\ available_products # << >>)
        THEN {Returned(log, Result(None, << >>), FALSE)}
        ELSE { IF "error" \in DOMAIN order THEN Returned(log, Result(order, << >>), TRUE)
               ELSE LET delivery == delivery_event(order)
                        m == schedule_meal_prep_reminders(Append(log, delivery), meal_plan, now)
                    IN  IF m.raised THEN [Raised(m.events) EXCEPT !.ordered = TRUE]
                        ELSE [Returned(m.events, Result(order, << delivery >> \o m.returned), TRUE)
                                 EXCEPT !.items = Append(inventory,
                                            FridgeItem("Spinach", 1, "bag", 20250801, "vegetable"))] :
               order \in create_order(available_products, PreferredDelivery(now), now) }

\* plan_and_order that reports the meal-prep events without the delivery event
plan_and_order_meal_events_only(key, inventory, log, days, auto_order, live, now) ==
    LET g == generate_meal_plan(key, inventory, days, live)
        meal_plan == g.plan
        elems == GroceryElems(meal_plan)
        grocery_items == [i \in 1..Len(elems) |-> elems[i].item]
        products == search_products(grocery_items)
        available_products ==
            Filter(products, [p \in {products[i] : i \in 1..Len(products)} |-> HasStoreItem(p)])
        cost == IF available_products # << >> THEN SumCost(available_products) ELSE 0
        Result(order, calendar_events) ==
            [meal_plan |-> meal_plan, grocery_search_results |-> products,
             total_estimated_cost |-> cost, order |-> order, calendar_events |-> calendar_events]
        Raised(evs) == [events |-> evs, raised |-> TRUE, result |-> None, plan |-> meal_plan,
                        called |-> g.called, mock |-> g.mock, ordered |-> FALSE, items |-> inventory]
        Returned(evs, res, ordered) == [events |-> evs, raised |-> FALSE, result |-> res, plan |-> meal_plan,
                                        called |-> g.called, mock |-> g.mock, ordered |-> ordered,
                                        items |-> inventory]
    IN  IF \E i \in 1..Len(elems) : ItemRaises(elems[i]) THEN {Raised(log)}
        ELSE IF ~(auto_order /\ available_products # << >>)
        THEN {Returned(log, Result(None, << >>), FALSE)}
        ELSE { IF "error" \in DOMAIN order THEN Returned(log, Result(order, << >>), TRUE)
               ELSE LET delivery == delivery_event(order)
                        m == schedule_meal_prep_reminders(Append(log, delivery), meal_plan, now)
                    IN  IF m.raised THEN [Raised(m.events) EXCEPT !.ordered = TRUE]
                        ELSE Returned(m.events, Result(order, m.returned), TRUE) :
               order \in create_order(available_products, PreferredDelivery(now), now) }

\* plan_and_order: the outcomes it can have: the log afterwards, whether an
\* exception reached the caller, and the result returned otherwise
plan_and_order(key, inventory, log, days, auto_order, live, now) ==
    LET g == generate_meal_plan(key, inventory, days, live)
        meal_plan == g.plan
        elems == GroceryElems(meal_plan)
        grocery_items == [i \in 1..Len(elems) |-> elems[i].item]
        products == search_products(grocery_items)
        available_products ==
            Filter(products, [p \in {products[i] : i \in 1..Len(products)} |-> HasStoreItem(p)])
        cost == IF available_products # << >> THEN SumCost(available_products) ELSE 0
        Result(order, calendar_events) ==
            [meal_plan |-> meal_plan, grocery_search_results |-> products,
             total_estimated_cost |-> cost, order |-> order, calendar_events |-> calendar_events]
        Raised(evs) == [events |-> evs, raised |-> TRUE, result |-> None, plan |-> meal_plan,
                        called |-> g.called, mock |-> g.mock, ordered |-> FALSE, items |-> inventory]
        Returned(evs, res, ordered) == [events |-> evs, raised |-> FALSE, result |-> res, plan |-> meal_plan,
                                        called |-> g.called, mock |-> g.mock, ordered |-> ordered,
                                        items |-> inventory]
    IN  IF \E i \in 1..Len(elems) : ItemRaises(elems[i]) THEN {Raised(log)}
        ELSE IF ~(auto_order /\ available_products # << >>)
        THEN {Returned(log, Result(None, << >>), FALSE)}
        ELSE { IF "error" \in DOMAIN order THEN Returned(log, Result(order, << >>), TRUE)
               ELSE LET delivery == delivery_event(order)
                        m == schedule_meal_prep_reminders(Append(log, delivery), meal_plan, now)
                    IN  IF m.raised THEN [Raised(m.events) EXCEPT !.ordered = TRUE]
                        ELSE Returned(m.events, Result(order, << delivery >> \o m.returned), TRUE) :
               order \in create_order(available_products, PreferredDelivery(now), now) }

----------------------------------------------------------------------------
(* Calls of the planner and the workflow *)

StartClock == 540
ClockStep == 600
KeyValues == {PyNone, "", "sk-test"}

\* GroceryConcierge.__init__: MealPlanner(openai_api_key) with the
\* environment's OPENAI_API_KEY, an empty event log
PlanInit ==
    /\ api_key \in {PyOr(arg, env) : arg \in KeyValues, env \in KeyValues}
    /\ live_calls = 0
    /\ events = << >>
    /\ plan_last = [op |-> "none"]
    /\ clock = StartClock

GenerateMealPlan ==
    /\ live_calls < MaxCalls
    /\ \E days \in 0..MaxDays, live \in LiveOutcomes :
         LET g == generate_meal_plan(api_key, items, days, live)
         IN  /\ live_calls' = live_calls + (IF g.called THEN 1 ELSE 0)
             /\ plan_last' = [op |-> "generate", days |-> days, live |-> live, key |-> api_key,
                              plan |-> g.plan, mock |-> g.mock, called |-> g.called,
                              raised |-> FALSE, pre_calls |-> live_calls, pre_events |-> events]
    /\ UNCHANGED <<api_key, events, clock, inv_vars, store_vars>>

PlanAndOrder ==
    /\ live_calls < MaxCalls
    /\ Len(events) + 1 + MaxDays <= MaxEvents
    /\ \E days \in 0..MaxDays, auto_order \in BOOLEAN, live \in LiveOutcomes,
          now \in {clock, clock + ClockStep} :
         /\ now <= MaxClock
         /\ \E o \in plan_and_order(api_key, items, events, days, auto_order, live, now) :
              /\ events' = o.events
              /\ items' = o.items
              /\ live_calls' = live_calls + (IF o.called THEN 1 ELSE 0)
              /\ plan_last' = [op |-> "plan_and_order", days |-> days, live |-> live, key |-> api_key,
                               plan |-> o.plan, mock |-> o.mock, called |-> o.called,
                               raised |-> o.raised, pre_calls |-> live_calls, pre_events |-> events,
                               auto_order |-> auto_order, result |-> o.result, ordered |-> o.ordered,
                               now |-> now, pre_items |-> items]
              /\ clock' = now
    /\ UNCHANGED <<api_key, doc, inv_last, inv_prev, store_vars>>

PlanNext == GenerateMealPlan \/ PlanAndOrder

----------------------------------------------------------------------------
(* Calls of the calendar, the daily check and the status.  The scheduling
   calls happen now or a step later; a query is made at the time the clock
   shows. *)

\* the times a call can be made at: now, or a step later
Nows == {t \in {clock, clock + ClockStep} : t <= MaxClock}

\* a delivery time a caller can ask for in UTC, "...T16:00:00Z"
ZuluDelivery(now) ==
    [date |-> (now + MinutesPerDay) \div MinutesPerDay, time |-> 16 * 60, tz |-> "Z"]

\* orders handed to schedule_delivery_reminder: what create_order returns
\* for one matched line without a delivery time or with one in UTC (the
\* workflow passes the preferred one), and for no line at all
CalOrders(now) ==
    UNION { create_order(<< FoundProduct(SpinachItem) >>, delivery_time, now) :
                delivery_time \in {None, ZuluDelivery(now)} }
    \cup create_order(<< >>, None, now)

\* plans handed to schedule_meal_prep_reminders
CalPlans ==
    { _generate_mock_meal_plan(<< >>, days) : days \in 0..MaxDays } \cup
    { JsonLoads(text).value :
        text \in { "{\"plan\": \"eat well\"}",
                   "{\"meal_plan\": {\"monday\": {}}, \"grocery_list\": [{name, quantity, unit, category}]}",
                   "{\"meal_plan\": {\"day_1\": {}}, \"grocery_list\": [{name, quantity, unit, category}]}" } }

ScheduleDelivery ==
    /\ Len(events) < MaxReminders
    /\ \E now \in Nows :
         \E order \in CalOrders(now) :
            LET r == schedule_delivery_reminder(events, order)
            IN  /\ events' = r.events
                /\ plan_last' = [op |-> "schedule_delivery", order |-> order, now |-> now,
                                 returned |-> r.returned, raised |-> r.raised, pre_events |-> events]
                /\ clock' = now
    /\ UNCHANGED <<api_key, live_calls, inv_vars, store_vars>>

ScheduleMealPrep ==
    /\ Len(events) <= MaxReminders
    /\ Len(events) + MaxDays <= MaxEvents
    /\ \E now \in Nows, meal_plan \in CalPlans :
            LET r == schedule_meal_prep_reminders(events, meal_plan, now)
            IN  /\ events' = r.events
                /\ plan_last' = [op |-> "schedule_meal_prep", plan |-> meal_plan, now |-> now,
                                 returned |-> r.returned, raised |-> r.raised, pre_events |-> events]
                /\ clock' = now
    /\ UNCHANGED <<api_key, live_calls, inv_vars, store_vars>>

Upcoming ==
    /\ \E now \in {clock}, days \in 0..MaxWindow :
            LET r == get_upcoming_events(events, days, now)
            IN  /\ events' = r.events
                /\ plan_last' = [op |-> "upcoming", days |-> days, now |-> now,
                                 returned |-> r.returned, raised |-> r.raised, pre_events |-> events,
                                 pre_items |-> items]
                /\ clock' = now
    /\ UNCHANGED <<api_key, live_calls, inv_vars, store_vars>>

DailyCheck ==
    /\ \E now \in {clock} :
            /\ plan_last' = [op |-> "daily_check", now |-> now, insights |-> daily_check(items, now),
                             raised |-> FALSE, pre_events |-> events, pre_items |-> items]
            /\ clock' = now
    /\ UNCHANGED <<api_key, live_calls, events, inv_vars, store_vars>>

SystemStatus ==
    /\ \E now \in {clock} :
            LET r == get_system_status(items, events, api_key, now)
            IN  /\ plan_last' = [op |-> "system_status", now |-> now, status |-> r.status,
                                 raised |-> r.raised, pre_events |-> events, pre_items |-> items]
                /\ clock' = now
    /\ UNCHANGED <<api_key, live_calls, events, inv_vars, store_vars>>

CalNext == ScheduleDelivery \/ ScheduleMealPrep \/ Upcoming \/ PlanAndOrder \/ DailyCheck \/ SystemStatus

\* GroceryConcierge.__init__ with a key
CalInit ==
    /\ api_key = PyOr("sk-test", PyNone)
    /\ live_calls = 0
    /\ events = << >>
    /\ plan_last = [op |-> "none"]
    /\ clock = StartClock

----------------------------------------------------------------------------
(* Queries of the inventory and the fallback plan *)

\* fridges the queries are asked of: the sample one, a well-stocked one, one
\* with a line about to expire, one with a low line, and an empty one
QueryInventories ==
    { default_items,
      << FridgeItem("Cheese", 8, "oz", 20250801, "dairy"),
         FridgeItem("Eggs", 3, "pieces", 20250730, "dairy") >>,
      << FridgeItem("Spinach", 4, "bag", 20250718, "vegetable") >>,
      << FridgeItem("Rice", 2, "cups", 20260101, "grain") >>,
      << >> }

\* a fridge loaded from its document; the queries are made on one of the
\* first days
QueryInit ==
    /\ items \in QueryInventories
    /\ doc = DocOf(items)
    /\ inv_last = NoCall
    /\ inv_prev = NoCall
    /\ api_key = PyNone
    /\ live_calls = 0
    /\ events = << >>
    /\ plan_last = [op |-> "none"]
    /\ clock \in {StartClock + age * MinutesPerDay : age \in 0..MaxAge}

\* get_expiring_soon asked twice of the same fridge at the same time
ExpiringPair ==
    /\ \E d1 \in 0..MaxSpan, d2 \in 0..MaxSpan :
            plan_last' = [op |-> "expiring_pair", d1 |-> d1, d2 |-> d2, now |-> clock,
                          first |-> get_expiring_soon(items, d1, clock),
                          second |-> get_expiring_soon(items, d2, clock),
                          pre_items |-> items]
    /\ UNCHANGED <<api_key, live_calls, events, clock, inv_vars, store_vars>>

\* get_low_stock asked twice of the same fridge
LowStockPair ==
    /\ \E t1 \in 0..MaxThreshold, t2 \in 0..MaxThreshold :
            plan_last' = [op |-> "low_stock_pair", t1 |-> t1, t2 |-> t2,
                          first |-> get_low_stock(items, t1),
                          second |-> get_low_stock(items, t2),
                          pre_items |-> items]
    /\ UNCHANGED <<api_key, live_calls, events, clock, inv_vars, store_vars>>

\* the fallback generator invoked twice for the same number of days, on this
\* fridge and on another one
MockPair ==
    /\ \E days \in 1..MaxDays, other \in QueryInventories :
            plan_last' = [op |-> "mock_pair", days |-> days, other |-> other,
                          first |-> _generate_mock_meal_plan(items, days),
                          second |-> _generate_mock_meal_plan(other, days),
                          pre_items |-> items]
    /\ UNCHANGED <<api_key, live_calls, events, clock, inv_vars, store_vars>>

QueryNext == DailyCheck \/ ExpiringPair \/ LowStockPair \/ MockPair

----------------------------------------------------------------------------
(* Calls of the grocery manager *)

ItemPool ==
    { GroceryItem(n, q, "bag", "misc", 0) : n \in {"SPINACH", "pasta", "Saffron"}, q \in 1..MaxItemQty }

\* resolved lines a caller can hand to create_order: what search_products
\* builds, and the same with the product marked unavailable
ProductPool ==
    {FoundProduct(i) : i \in ItemPool} \cup
    {[FoundProduct(i) EXCEPT !.store_item.available = FALSE] :
        i \in {j \in ItemPool : HasStoreItem(FoundProduct(j))}}

SeqsUpTo(S, n) == UNION {[1..k -> S] : k \in 0..n}

StoreNows == {StartClock, 1400}

\* the calls tried, with lists of up to longest lines: one per start state
StoreCalls(longest) ==
    {[op |-> "call_search", input |-> grocery_list] : grocery_list \in SeqsUpTo(ItemPool, longest)} \cup
    {[op |-> "call_create", input |-> products, delivery_time |-> delivery_time, now |-> now] :
        products \in SeqsUpTo(ProductPool, longest),
        delivery_time \in {None, PreferredDelivery(StartClock)},
        now \in StoreNows}

StoreInit == store_last \in StoreCalls(MaxList)

SearchProducts ==
    /\ store_last.op = "call_search"
    /\ store_last' = [op |-> "search", input |-> store_last.input,
                      result |-> search_products(store_last.input)]
    /\ UNCHANGED <<inv_vars, plan_vars>>

CreateOrder ==
    /\ store_last.op = "call_create"
    /\ \E order \in create_order(store_last.input, store_last.delivery_time, store_last.now) :
           store_last' = [op |-> "create", input |-> store_last.input,
                          delivery_time |-> store_last.delivery_time,
                          now |-> store_last.now, result |-> order]
    /\ UNCHANGED <<inv_vars, plan_vars>>

StoreNext == SearchProducts \/ CreateOrder

----------------------------------------------------------------------------
(* Specifications *)

\* the inventory as GroceryConcierge.__init__ leaves it on a first run
InvIdle ==
    /\ items = default_items
    /\ doc = DocOf(default_items)
    /\ inv_last = NoCall
    /\ inv_prev = NoCall

\* the planner, calendar and store variables while only the inventory runs
PlanIdle ==
    /\ api_key = PyNone
    /\ live_calls = 0
    /\ events = << >>
    /\ plan_last = [op |-> "none"]
    /\ clock = StartClock

StoreIdle == store_last = [op |-> "none"]

InitInv == InvInit /\ PlanIdle /\ StoreIdle
SpecInv == InitInv /\ [][InvNext]_vars

InitPlan == InvIdle /\ PlanInit /\ StoreIdle
SpecPlan == InitPlan /\ [][PlanNext]_vars

InitStore == InvIdle /\ PlanIdle /\ StoreInit
SpecStore == InitStore /\ [][StoreNext]_vars

InitCal == InvIdle /\ CalInit /\ StoreIdle
SpecCal == InitCal /\ [][CalNext]_vars

InitQuery == QueryInit /\ StoreIdle
SpecQuery == InitQuery /\ [][QueryNext]_vars

----------------------------------------------------------------------------
(* Inventory claims *)

\* on-hand quantity of an item: that of its line, 0 when it has no line
OnHand(its, name) ==
    IF FirstMatch(its, name) = 0 THEN 0 ELSE its[FirstMatch(its, name)].quantity

\* the sequence without its i-th element
Without(its, i) ==
    [j \in 1..(Len(its) - 1) |-> IF j < i THEN its[j] ELSE its[j + 1]]

Matches(its, name) == {i \in 1..Len(its) : Lower(its[i].name) = Lower(name)}

\* C1: a remove(name, qty) that finds a line matching name case-insensitively
\* with qty <= its quantity returns success; the line then holds the previous
\* quantity minus qty, is absent when that is 0, and every other line is as
\* it was.
C1_RemoveEnough ==
    inv_last.op = "remove" =>
        \A i \in Matches(inv_last.pre, inv_last.name) :
            inv_last.quantity <= inv_last.pre[i].quantity =>
                /\ inv_last.ret = TRUE
                /\ items = IF inv_last.pre[i].quantity - inv_last.quantity = 0
                           THEN Without(inv_last.pre, i)
                           ELSE [inv_last.pre EXCEPT ![i].quantity =
                                     inv_last.pre[i].quantity - inv_last.quantity]

\* a remove that emptied a line and deleted it
C1_Witness ==
    /\ inv_last.op = "remove"
    /\ inv_last.quantity > 0
    /\ \E i \in Matches(inv_last.pre, inv_last.name) :
           /\ inv_last.pre[i].quantity = inv_last.quantity
           /\ inv_last.pre[i].name # inv_last.name
    /\ Len(items) = Len(inv_last.pre) - 1

\* C2: a remove(name, qty) with no line matching name, or whose matching line
\* holds less than qty, returns the failure value and leaves the inventory
\* and the persisted document as they were.
C2_RemoveRejected ==
    (/\ inv_last.op = "remove"
     /\ \/ Matches(inv_last.pre, inv_last.name) = {}
        \/ \E i \in Matches(inv_last.pre, inv_last.name) :
               inv_last.pre[i].quantity < inv_last.quantity)
    => /\ inv_last.ret = FALSE
       /\ items = inv_last.pre
       /\ doc = inv_last.predoc

\* a remove of more than the matching line holds
C2_Witness ==
    /\ inv_last.op = "remove"
    /\ \E i \in Matches(inv_last.pre, inv_last.name) :
           inv_last.pre[i].quantity < inv_last.quantity
    /\ inv_last.ret = FALSE
    /\ doc.state = "ok"

\* C3: after any sequence of add and remove calls with non-negative
\* quantities, from an inventory of positive quantities, every stored line
\* has a quantity >= 0 and none has quantity 0.
C3_NoZeroLine ==
    \A i \in 1..Len(items) : items[i].quantity >= 0 /\ items[i].quantity # 0

\* C4: add(line) directly followed by remove(line.name, line.quantity):
\* the remove succeeds and the item's on-hand quantity is what it was before
\* the add; an item with no line before the add has none afterwards.
C4_AddThenRemove ==
    (/\ inv_last.op = "remove"
     /\ inv_prev.op = "add"
     /\ inv_last.name = inv_prev.name
     /\ inv_last.quantity = inv_prev.quantity)
    => /\ inv_last.ret = TRUE
       /\ OnHand(items, inv_last.name) = OnHand(inv_prev.pre, inv_last.name)
       /\ Matches(inv_prev.pre, inv_last.name) = {} => Matches(items, inv_last.name) = {}

\* an add onto an existing line, then the matching remove
C4_Witness ==
    /\ inv_last.op = "remove"
    /\ inv_prev.op = "add"
    /\ inv_last.name = inv_prev.name
    /\ inv_last.quantity = inv_prev.quantity
    /\ inv_last.quantity > 0
    /\ OnHand(inv_prev.pre, inv_last.name) > 0
    /\ OnHand(items, inv_last.name) > 0

\* C5: load() on a missing document and load() on a malformed document both
\* leave the inventory equal to the default ten items and the persisted
\* document rewritten with them.
C5_LoadDefaults ==
    (inv_last.op = "load" /\ inv_last.predoc.state \in {"missing", "corrupt"})
    => /\ items = default_items
       /\ Len(items) = 10
       /\ doc = DocOf(default_items)

----------------------------------------------------------------------------
(* Planner claims *)

\* a parsed answer has the meal_plan / grocery_list / notes shape, with
\* grocery entries that have the fields of a grocery item
WellShaped(value) ==
    /\ value.t = "dict"
    /\ value.meal_plan.t = "dict"
    /\ value.notes.t = "list"
    /\ value.grocery_list.t = "list"
    /\ \A i \in 1..Len(value.grocery_list.elems) :
           LET e == value.grocery_list.elems[i]
           IN  /\ e.t = "dict"
               /\ e.keys \subseteq GroceryItemFields
               /\ GroceryItemRequired \subseteq e.keys

\* the live call failed, or answered text that does not parse, or text that
\* parses to something of another shape
LiveFailed(live) ==
    \/ live.raises
    \/ ~JsonLoads(live.text).ok
    \/ ~WellShaped(JsonLoads(live.text).value)

PlannerCalled == plan_last.op \in {"generate", "plan_and_order"}

\* C6: with a credential configured, a live call that fails, answers text
\* that does not parse, or answers text of another shape makes
\* generate_meal_plan / plan_and_order use the fallback plan, and no error
\* reaches the caller.
C6_LiveFailureFallsBack ==
    (PlannerCalled /\ Truthy(plan_last.key) /\ LiveFailed(plan_last.live))
    => plan_last.mock /\ ~plan_last.raised

\* C7: the live generator is called only when a credential is configured;
\* without one, generate_meal_plan returns the fallback plan and the
\* generator is not called.
C7_NoCredentialNoCall ==
    PlannerCalled =>
        /\ ~Truthy(plan_last.key) =>
               /\ ~plan_last.raised
               /\ plan_last.plan = _generate_mock_meal_plan(items, plan_last.days)
               /\ Len(plan_last.plan.grocery_list.elems) = 4
               /\ live_calls = plan_last.pre_calls
        /\ live_calls > plan_last.pre_calls => Truthy(plan_last.key)

\* a call with the empty string as key, which asks for two days
C7_Witness ==
    /\ plan_last.op = "generate"
    /\ plan_last.key = ""
    /\ plan_last.days = 2
    /\ ~plan_last.live.raises
    /\ WellShaped(JsonLoads(plan_last.live.text).value)
    /\ plan_last.mock
    /\ live_calls = 0

----------------------------------------------------------------------------
(* Grocery manager claims *)

\* C8: search_products returns one entry per input item, in input order: the
\* result is as long as the input and its i-th entry is for the i-th item.
C8_OnePerItem ==
    store_last.op = "search" =>
        /\ Len(store_last.result) = Len(store_last.input)
        /\ \A i \in 1..Len(store_last.input) :
               store_last.result[i].requested_item = store_last.input[i]

\* three items, an unmatched one between two matched ones
C8_Witness ==
    /\ store_last.op = "search"
    /\ Len(store_last.input) = 3
    /\ Len(store_last.result) = 3
    /\ HasStoreItem(store_last.result[1])
    /\ ~HasStoreItem(store_last.result[2])
    /\ HasStoreItem(store_last.result[3])
    /\ store_last.input[1] # store_last.input[3]

\* C9: an item is matched exactly when its lower-cased name is a catalog key,
\* whatever its unit; a matched entry carries the catalog price times the
\* quantity and the catalog's availability; an unmatched entry has no store
\* item and carries the not-found marker.
C9_MatchByName ==
    store_last.op = "search" =>
        \A i \in 1..Len(store_last.input) :
            LET item == store_last.input[i]
                line == store_last.result[i]
            IN  IF Lower(item.name) \in DOMAIN store_catalog
                THEN /\ line.store_item # None
                     /\ line.store_item.total_cost = store_catalog[Lower(item.name)].price * item.quantity
                     /\ line.store_item.available = store_catalog[Lower(item.name)].available
                     /\ "error" \notin DOMAIN line
                ELSE /\ line.store_item = None
                     /\ "error" \in DOMAIN line
                     /\ line.error = NotFound

\* an upper-case name matched, with a unit other than the catalog's, at twice
\* the price
C9_Witness ==
    /\ store_last.op = "search"
    /\ \E i \in 1..Len(store_last.input) :
           /\ store_last.input[i].name = "SPINACH"
           /\ store_last.input[i].quantity = 2
           /\ store_last.result[i].store_item # None
           /\ store_last.result[i].store_item.total_cost = 598
    /\ \E i \in 1..Len(store_last.input) :
           /\ store_last.input[i].name = "pasta"
           /\ store_last.input[i].unit # store_catalog["pasta"].unit
           /\ store_last.result[i].store_item # None

\* no line of the input is both matched and available
NoneAvailable(products) ==
    \A i \in 1..Len(products) :
        products[i].store_item = None \/ ~products[i].store_item.available

\* C10: create_order on lines of which none is both matched and available
\* (no lines, all unmatched, or all unavailable) returns the error result and
\* no order.
C10_NothingToOrder ==
    (store_last.op = "create" /\ NoneAvailable(store_last.input))
    => /\ "error" \in DOMAIN store_last.result
       /\ "order_id" \notin DOMAIN store_last.result
       /\ "items" \notin DOMAIN store_last.result

\* lines that are all matched but unavailable
C10_Witness ==
    /\ store_last.op = "create"
    /\ Len(store_last.input) = 2
    /\ \A i \in 1..Len(store_last.input) :
           store_last.input[i].store_item # None /\ ~store_last.input[i].store_item.available
    /\ store_last.result = OrderError

\* a line that is matched and available
AvailableLine(p) == p.store_item # None /\ p.store_item.available

OrderCreated == store_last.op = "create" /\ "order_id" \in DOMAIN store_last.result

\* C11: an order returned by create_order has a non-empty item sequence that
\* is exactly the input lines that are matched and available, in input
\* order; no unmatched or unavailable line is in it.
C11_OrderLines ==
    OrderCreated =>
        /\ store_last.result.items # << >>
        /\ store_last.result.items = SelectSeq(store_last.input, AvailableLine)
        /\ \A i \in 1..Len(store_last.result.items) : AvailableLine(store_last.result.items[i])

\* an order made from three lines of which the middle one is unavailable
C11_Witness ==
    /\ OrderCreated
    /\ Len(store_last.input) = 3
    /\ AvailableLine(store_last.input[1])
    /\ store_last.input[2].store_item # None
    /\ ~AvailableLine(store_last.input[2])
    /\ AvailableLine(store_last.input[3])
    /\ store_last.input[1] # store_last.input[3]
    /\ Len(store_last.result.items) = 2

\* the sum of the line totals of the matched and available input lines
RECURSIVE LineTotals(_)
LineTotals(products) ==
    IF products = << >> THEN 0
    ELSE (IF AvailableLine(Head(products)) THEN Head(products).store_item.total_cost ELSE 0)
         + LineTotals(Tail(products))

Abs(n) == IF n < 0 THEN -n ELSE n

\* C12: in an order (amounts in cents) the subtotal is the sum of the line
\* totals of the lines in it, the delivery fee is 5.99, the tip is 15% of the
\* subtotal rounded to a cent, and the total is within a cent of
\* subtotal + fee + 15% of the subtotal.
C12_OrderAmounts ==
    OrderCreated =>
        LET o == store_last.result
        IN  /\ o.subtotal = LineTotals(store_last.input)
            /\ o.delivery_fee = 599
            /\ Abs(100 * o.tip - 15 * o.subtotal) <= 50
            /\ Abs(100 * o.total - (100 * o.subtotal + 100 * 599 + 15 * o.subtotal)) <= 100

\* an order over two lines whose tip rounds up: 2 x 2.99 + 1.49 = 7.47, tip 1.12
C12_Witness ==
    /\ OrderCreated
    /\ Len(store_last.result.items) = 2
    /\ store_last.result.subtotal = 747
    /\ store_last.result.tip = 112
    /\ store_last.result.total = 1458

----------------------------------------------------------------------------
(* Workflow claims *)

WorkflowCalled == plan_last.op = "plan_and_order"

\* the lines plan_and_order resolves from the plan it got; none when
\* building the grocery items raised
ResolvedLines ==
    LET elems == GroceryElems(plan_last.plan)
    IN  IF \E i \in 1..Len(elems) : ItemRaises(elems[i]) THEN << >>
        ELSE search_products([i \in 1..Len(elems) |-> elems[i].item])

\* auto_order was set and a resolved line is matched and available
MayOrder ==
    /\ plan_last.auto_order
    /\ \E i \in 1..Len(ResolvedLines) : AvailableLine(ResolvedLines[i])

\* C13: plan_and_order calls create_order and schedules reminders only when
\* auto_order is true and a resolved line is matched and available; otherwise
\* create_order is not called, the result has no order and no calendar
\* events, and the event log is as it was.
C13_OrderOnlyWhenAsked ==
    WorkflowCalled =>
        /\ plan_last.ordered => MayOrder
        /\ events # plan_last.pre_events => MayOrder
        /\ ~MayOrder =>
               /\ ~plan_last.ordered
               /\ events = plan_last.pre_events
               /\ ~plan_last.raised =>
                      /\ plan_last.result.order = None
                      /\ plan_last.result.calendar_events = << >>

\* matched lines and a log that is not empty, but auto_order is off
C13_Witness ==
    /\ WorkflowCalled
    /\ ~plan_last.auto_order
    /\ \E i \in 1..Len(ResolvedLines) : AvailableLine(ResolvedLines[i])
    /\ ~plan_last.raised
    /\ plan_last.result.order = None
    /\ plan_last.pre_events # << >>
    /\ events = plan_last.pre_events

\* the types of the events of a log
EventTypes(log) == [i \in 1..Len(log) |-> log[i].type]

\* C14: plan_and_order(days=3, auto_order=True) with the fallback plan and
\* the default catalog returns an order with subtotal 22.46 and appends one
\* delivery event followed by three meal-prep events to the log.
C14_ThreeDayOrder ==
    (WorkflowCalled /\ plan_last.days = 3 /\ plan_last.auto_order /\ plan_last.mock)
    => /\ ~plan_last.raised
       /\ "order_id" \in DOMAIN plan_last.result.order
       /\ plan_last.result.order.subtotal = 2246
       /\ plan_last.result.order.subtotal = 299 + 1299 + 149 + 499
       /\ Len(events) = Len(plan_last.pre_events) + 4
       /\ SubSeq(events, 1, Len(plan_last.pre_events)) = plan_last.pre_events
       /\ EventTypes(SubSeq(events, Len(plan_last.pre_events) + 1, Len(events)))
              = << "delivery_reminder", "meal_prep", "meal_prep", "meal_prep" >>

\* the call made without a key, onto a log that already holds an event
C14_Witness ==
    /\ WorkflowCalled
    /\ plan_last.days = 3
    /\ plan_last.auto_order
    /\ ~Truthy(plan_last.key)
    /\ plan_last.mock
    /\ Len(plan_last.pre_events) = 1
    /\ Len(events) = 5

\* ---- C15 ----
\* the last call was schedule_meal_prep_reminders on a plan whose meal_plan
\* has the keys day_1..day_N, in that order
DayKeyed(plan) ==
    /\ plan.meal_plan.t = "dict"
    /\ \A i \in 1..Len(plan.meal_plan.days) : plan.meal_plan.days[i].key = DayKey(i)

MealPrepCalled == plan_last.op = "schedule_meal_prep" /\ DayKeyed(plan_last.plan)

\* the daily anchor: 18:00 of the day of the call
Anchor(now) == (now \div MinutesPerDay) * MinutesPerDay + 18 * 60

\* C15: schedule_meal_prep_reminders on a plan with the keys day_1..day_N
\* appends exactly N meal_prep events to the log, the i-th starting at the
\* anchor plus (i - 1) days, and returns exactly those N events, whatever
\* the log held before.
C15_MealPrepAppends ==
    MealPrepCalled
    => LET n == Len(plan_last.plan.meal_plan.days)
       IN  /\ ~plan_last.raised
           /\ Len(plan_last.returned) = n
           /\ events = plan_last.pre_events \o plan_last.returned
           /\ \A i \in 1..n :
                 /\ plan_last.returned[i].type = "meal_prep"
                 /\ plan_last.returned[i].event_id = << "MEAL_PREP", DayKey(i) >>
                 /\ FromIso(plan_last.returned[i].start_time)
                        = Anchor(plan_last.now) + (i - 1) * MinutesPerDay
                 /\ ~Aware(plan_last.returned[i].start_time)

\* a plan of several days scheduled onto a log that already holds events
C15_Witness ==
    /\ MealPrepCalled
    /\ Len(plan_last.plan.meal_plan.days) >= 2
    /\ plan_last.pre_events # << >>
    /\ Len(events) = Len(plan_last.pre_events) + Len(plan_last.plan.meal_plan.days)

\* ---- C16 ----
\* C16: the event log is append-only: every call of schedule_delivery_reminder,
\* schedule_meal_prep_reminders, get_upcoming_events, plan_and_order,
\* daily_check and get_system_status leaves the log it found as a prefix of
\* the log it leaves (nothing is removed, reordered or changed).
C16_AppendOnly ==
    [][/\ Len(events) <= Len(events')
       /\ SubSeq(events', 1, Len(events)) = events]_vars

\* get_upcoming_events has returned, in another order than the log holds
\* them, all the events of a log that was appended to more than once
C16_Witness ==
    /\ plan_last.op = "upcoming"
    /\ ~plan_last.raised
    /\ Len(events) >= 2
    /\ Len(plan_last.returned) = Len(events)
    /\ plan_last.returned # events
    /\ events = plan_last.pre_events

\* ---- C17 ----
UpcomingCalled == plan_last.op = "upcoming"

\* the positions of the log whose start_time is not beyond now + days
Kept(log, days, now) ==
    {i \in 1..Len(log) : FromIso(log[i].start_time) <= now + days * MinutesPerDay}

\* position j of the log comes before position i in ascending order of
\* start_time, equal start times in order of insertion
ComesBefore(log, j, i) ==
    \/ FromIso(log[j].start_time) < FromIso(log[i].start_time)
    \/ FromIso(log[j].start_time) = FromIso(log[i].start_time) /\ j < i

\* C17: get_upcoming_events(days) returns exactly the logged events with
\* start_time <= now + days, none beyond that cutoff, in ascending order of
\* start_time, events of equal start_time in the order they were logged.
C17_UpcomingSorted ==
    UpcomingCalled
    => LET log == plan_last.pre_events
           keep == Kept(log, plan_last.days, plan_last.now)
       IN  /\ ~plan_last.raised
           /\ Len(plan_last.returned) = Cardinality(keep)
           /\ \A i \in keep :
                 plan_last.returned[Cardinality({j \in keep : ComesBefore(log, j, i)}) + 1] = log[i]

\* ---- C18 ----
DailyCheckCalled == plan_last.op = "daily_check"

\* the lines of a fridge that satisfy a condition, as a set of positions
Lines(its, keep(_)) == {i \in 1..Len(its) : keep(its[i])}

\* the lines at a set of positions, in the order of the fridge
RECURSIVE Picked(_, _)
Picked(its, positions) ==
    IF its = << >> THEN << >>
    ELSE Picked(SubSeq(its, 1, Len(its) - 1), positions)
         \o (IF Len(its) \in positions THEN << its[Len(its)] >> ELSE << >>)

RecommendationNotes(insights) ==
    [i \in 1..Len(insights.recommendations) |-> insights.recommendations[i].note]

C18_WellStocked ==
    /\ DailyCheckCalled
    /\ plan_last.pre_items # << >>
    /\ RecommendationNotes(plan_last.insights) = << "Your fridge is well-stocked and organized!" >>

\* ---- C19 ----
Range(seq) == {seq[i] : i \in 1..Len(seq)}

\* C19: on one fridge at one time, get_expiring_soon(d1) is included in
\* get_expiring_soon(d2) for d1 <= d2, and get_low_stock(t1) is included in
\* get_low_stock(t2) for t1 <= t2.
C19_Monotone ==
    /\ (plan_last.op = "expiring_pair" /\ plan_last.d1 <= plan_last.d2)
       => /\ Range(plan_last.first) \subseteq Range(plan_last.second)
          /\ Len(plan_last.first) <= Len(plan_last.second)
    /\ (plan_last.op = "low_stock_pair" /\ plan_last.t1 <= plan_last.t2)
       => /\ Range(plan_last.first) \subseteq Range(plan_last.second)
          /\ Len(plan_last.first) <= Len(plan_last.second)

\* a wider span that returns more lines than the narrower one, which
\* returned some
C19_Witness ==
    /\ plan_last.op = "expiring_pair"
    /\ plan_last.d1 < plan_last.d2
    /\ plan_last.first # << >>
    /\ Len(plan_last.first) < Len(plan_last.second)

\* a higher threshold that returns more lines than the lower one
C19_WitnessLowStock ==
    /\ plan_last.op = "low_stock_pair"
    /\ plan_last.t1 < plan_last.t2
    /\ plan_last.first # << >>
    /\ Len(plan_last.first) < Len(plan_last.second)

\* ---- C20 ----
MockPairCalled == plan_last.op = "mock_pair"

\* C20: two invocations of the fallback generator for N >= 1 days, whatever
\* the two fridges hold, return the same plan: meal_plan has exactly the
\* keys day_1..day_N, each with the three fixed meals, and grocery_list is
\* the list of the four staples, each with a non-zero estimated price.
C20_FallbackFixed ==
    MockPairCalled
    => LET first == plan_last.first
           n == plan_last.days
       IN  /\ first = plan_last.second
           /\ first.meal_plan.t = "dict"
           /\ Len(first.meal_plan.days) = n
           /\ \A d \in 1..n :
                 /\ first.meal_plan.days[d].key = "day_" \o ToString(d)
                 /\ first.meal_plan.days[d].meals =
                        [breakfast |-> "Scrambled eggs with cheese",
                         lunch |-> "Chicken and vegetable stir-fry",
                         dinner |-> "Grilled salmon with rice and broccoli"]
           /\ first.grocery_list.t = "list"
           /\ [i \in 1..Len(first.grocery_list.elems) |-> first.grocery_list.elems[i].item.name]
                = << "Spinach", "Salmon", "Pasta", "Olive Oil" >>
           /\ \A i \in 1..Len(first.grocery_list.elems) :
                 first.grocery_list.elems[i].item.estimated_price > 0

\* the generator invoked for several days on a fridge that holds one of the
\* staples and on one that does not
C20_Witness ==
    /\ MockPairCalled
    /\ plan_last.days >= 2
    /\ \E i \in 1..Len(plan_last.pre_items) : plan_last.pre_items[i].name = "Spinach"
    /\ plan_last.other = default_items

\* ---- C21 ----
\* the last call was schedule_delivery_reminder on a created order
DeliveryScheduled ==
    /\ plan_last.op = "schedule_delivery"
    /\ "estimated_delivery" \in DOMAIN plan_last.order

\* C21: schedule_delivery_reminder(order) appends exactly one event of type
\* delivery_reminder to the log; its start_time is the order's
\* estimated_delivery and its reminder_time is 30 minutes before that.
C21_DeliveryEvent ==
    DeliveryScheduled
    => LET event == plan_last.returned
           estimated == plan_last.order.estimated_delivery
       IN  /\ ~plan_last.raised
           /\ events = Append(plan_last.pre_events, event)
           /\ event.type = "delivery_reminder"
           /\ FromIso(event.start_time) = FromIso(estimated)
           /\ Aware(event.start_time) = Aware(estimated)
           /\ FromIso(event.reminder_time) = FromIso(estimated) - 30
           /\ Aware(event.reminder_time) = Aware(estimated)

\* a reminder scheduled onto a log that already holds an event, for an
\* order with the default delivery time
C21_Witness ==
    /\ DeliveryScheduled
    /\ plan_last.pre_events # << >>
    /\ FromIso(plan_last.order.estimated_delivery) = plan_last.now + 120
    /\ Len(events) = Len(plan_last.pre_events) + 1

\* ---- C22 ----
\* the last call was the load of the constructor, an add, or a remove that
\* returned success
Mutated ==
    \/ inv_last.op \in {"load", "add"}
    \/ inv_last.op = "remove" /\ inv_last.ret

\* C22: after construction and after every add and every successful remove
\* the records of the persisted document are the lines of the inventory,
\* in the same order and with the same quantities.
C22_DocumentIsInventory ==
    Mutated => doc = DocOf(items)

\* ---- C23 ----
\* no two lines have the same name up to case
DistinctNames(its) ==
    \A i, j \in 1..Len(its) : Lower(its[i].name) = Lower(its[j].name) => i = j

\* C23: an add or a remove on an inventory whose line names are pairwise
\* distinct up to case leaves them pairwise distinct: an add of a name that
\* is there adds to its line and appends none.
C23_NamesStayDistinct ==
    (inv_last.op \in {"add", "remove"} /\ DistinctNames(inv_last.pre))
    => /\ DistinctNames(items)
       /\ (inv_last.op = "add" /\ Matches(inv_last.pre, inv_last.name) # {})
          => Len(items) = Len(inv_last.pre)

\* an add of a name that is in the inventory in another spelling
C23_Witness ==
    /\ inv_last.op = "add"
    /\ inv_last.quantity > 0
    /\ DistinctNames(inv_last.pre)
    /\ \E i \in Matches(inv_last.pre, inv_last.name) :
          /\ inv_last.pre[i].name # inv_last.name
          /\ items[i].quantity = inv_last.pre[i].quantity + inv_last.quantity
    /\ Len(items) = Len(inv_last.pre)

\* ---- C24 ----
\* C24: daily_check, get_system_status, get_upcoming_events and
\* plan_and_order without auto_order leave the inventory lines and the event
\* log as they found them, and plan_and_order with any arguments leaves the
\* inventory lines as it found them.
C24_ReadOnly ==
    /\ plan_last.op \in {"daily_check", "system_status", "upcoming"}
       => items = plan_last.pre_items /\ events = plan_last.pre_events
    /\ plan_last.op = "plan_and_order"
       => /\ items = plan_last.pre_items
          /\ ~plan_last.auto_order => events = plan_last.pre_events

\* a workflow call that placed an order and scheduled its events
C24_Witness ==
    /\ plan_last.op = "plan_and_order"
    /\ plan_last.auto_order
    /\ ~plan_last.raised
    /\ "order_id" \in DOMAIN plan_last.result.order
    /\ Len(events) > Len(plan_last.pre_events)
    /\ items = plan_last.pre_items

\* a workflow call without auto_order, for a plan with lines the store has,
\* on a log that holds events
C24_WitnessNoOrder ==
    /\ plan_last.op = "plan_and_order"
    /\ ~plan_last.auto_order
    /\ ~plan_last.raised
    /\ plan_last.result.total_estimated_cost > 0
    /\ events # << >>

\* ---- C25 ----
\* the last call was a plan_and_order that returned a result
WorkflowReturned == plan_last.op = "plan_and_order" /\ ~plan_last.raised

\* the result's order is a created order: present and not an error result
OrderPlaced(result) == result.order # None /\ "error" \notin DOMAIN result.order

\* C25: in every result of plan_and_order, calendar_events is exactly the
\* events the call appended to the log, the delivery event first and then
\* the meal-prep events in the order of the plan, and it is non-empty iff
\* the result's order is a created order.
C25_CalendarEvents ==
    WorkflowReturned
    => LET calendar_events == plan_last.result.calendar_events
       IN  /\ events = plan_last.pre_events \o calendar_events
           /\ calendar_events # << >> <=> OrderPlaced(plan_last.result)
           /\ calendar_events # << >>
              => /\ calendar_events[1].type = "delivery_reminder"
                 /\ \A i \in 2..Len(calendar_events) :
                       /\ calendar_events[i].type = "meal_prep"
                       /\ calendar_events[i].event_id
                            = << "MEAL_PREP", plan_last.plan.meal_plan.days[i - 1].key >>
                 /\ Len(calendar_events) = 1 + Len(plan_last.plan.meal_plan.days)

\* an order placed for a plan of no days, onto a log that holds events: the
\* delivery event is the only calendar event
C25_Witness ==
    /\ WorkflowReturned
    /\ OrderPlaced(plan_last.result)
    /\ plan_last.pre_events # << >>
    /\ Len(plan_last.result.calendar_events) = 1

\* an order placed for a plan of several days
C25_WitnessDays ==
    /\ WorkflowReturned
    /\ OrderPlaced(plan_last.result)
    /\ Len(plan_last.result.calendar_events) >= 3

====
